---- MODULE Spec2Model ----
(***************************************************************************)
(* A model of volt: the cache store (crates/volt-server/server.rs) and the *)
(* cache client (crates/volt/cli.rs, hash.rs, config/config.rs).           *)
(*                                                                         *)
(* Strings are sequences of one-character strings, so that prefix          *)
(* stripping, trimming and UUID parsing are computed, not assumed.         *)
(* An optional value (Rust Option, or a file that may be absent) is a      *)
(* sequence of length 0 or 1.                                              *)
(***************************************************************************)
EXTENDS Integers, Sequences, FiniteSets, TLC

\* ------------------------------------------------------------------ bounds
\* number of requests the server handles at the same time
MaxReqs == 2
\* number of body chunks one push request may stream
MaxBody == 2

\* ----------------------------------------------------------------- options
None == <<>>
Some(x) == <<x>>
IsSome(o) == Len(o) = 1
Get(o) == o[1]

\* ----------------------------------------------------------------- strings
\* "Bearer abc" as a sequence of characters, and so on
BEARER == <<"B", "e", "a", "r", "e", "r", " ">>
TOKEN_A == <<"s", "3">>
TOKEN_B == <<"s", "4">>

\* str::strip_prefix: the rest after the prefix, or None
strip_prefix(s, p) ==
    IF Len(s) >= Len(p) /\ SubSeq(s, 1, Len(p)) = p
    THEN Some(SubSeq(s, Len(p) + 1, Len(s)))
    ELSE None

IsWhite(c) == c \in {" ", "\t", "\n", "\r"}

RECURSIVE trim_start(_)
trim_start(s) ==
    IF s # <<>> /\ IsWhite(Head(s)) THEN trim_start(Tail(s)) ELSE s

RECURSIVE trim_end(_)
trim_end(s) ==
    IF s # <<>> /\ IsWhite(s[Len(s)]) THEN trim_end(SubSeq(s, 1, Len(s) - 1)) ELSE s

\* str::trim
trim(s) == trim_end(trim_start(s))

HexDigits ==
    {"0", "1", "2", "3", "4", "5", "6", "7", "8", "9",
     "a", "b", "c", "d", "e", "f", "A", "B", "C", "D", "E", "F"}

AllHex(s) == \A i \in 1..Len(s) : s[i] \in HexDigits

\* the 8-4-4-4-12 form
IsHyphenated(s) ==
    /\ Len(s) = 36
    /\ \A i \in 1..36 :
          IF i \in {9, 14, 19, 24} THEN s[i] = "-" ELSE s[i] \in HexDigits

URN_PREFIX == <<"u", "r", "n", ":", "u", "u", "i", "d", ":">>

\* a faulty variant: only the length of the id is looked at
IsUuid_length_only(s) == Len(s) \in {32, 36, 38, 45}

\* uuid::Uuid::parse_str(..).is_ok(): simple, hyphenated, braced or URN form
IsUuid(s) ==
    \/ Len(s) = 32 /\ AllHex(s)
    \/ IsHyphenated(s)
    \/ Len(s) = 38 /\ s[1] = "{" /\ s[38] = "}" /\ IsHyphenated(SubSeq(s, 2, 37))
    \/ Len(s) = 45 /\ SubSeq(s, 1, 9) = URN_PREFIX /\ IsHyphenated(SubSeq(s, 10, 45))

Rep(c, n) == [i \in 1..n |-> c]

\* slot ids a request may carry in its path
UUID_1 == Rep("1", 8) \o <<"-">> \o Rep("a", 4) \o <<"-">> \o Rep("4", 4)
             \o <<"-">> \o Rep("B", 4) \o <<"-">> \o Rep("1", 12)
UUID_2 == Rep("2", 32)
BAD_ID_1 == <<"n", "o", "t", "-", "a", "-", "u", "u", "i", "d">>
BAD_ID_2 == Rep("1", 8) \o <<"-">> \o Rep("a", 4) \o <<"-">> \o Rep("4", 4)
             \o <<"-">> \o Rep("g", 4) \o <<"-">> \o Rep("1", 12)
VoltIds == {UUID_1, UUID_2, BAD_ID_1, BAD_ID_2}

\* fingerprints a raw request may carry in X-Volt-Hash
HASH_A == <<"a", "1">>
HASH_B == <<"b", "2">>
HASH_A_PADDED == HASH_A \o <<" ">>
RawHashes == {HASH_A, HASH_B, HASH_A_PADDED}

\* ------------------------------------------------------------------ headers
\* an HTTP header value: its bytes are visible ASCII or not, and its text
HeaderValue(ascii, text) == [ascii |-> ascii, text |-> text]

\* HeaderValue::to_str(..).ok()
to_str(h) == IF h.ascii THEN Some(h.text) ELSE None

\* headers.get(name).and_then(|h| h.to_str().ok())
header_str(h) == IF IsSome(h) THEN to_str(Get(h)) ELSE None

\* ServerConfig.auth_token
auth_token == TOKEN_A

AuthHeaders ==
    {None,
     Some(HeaderValue(TRUE, BEARER \o TOKEN_A)),
     Some(HeaderValue(TRUE, BEARER \o TOKEN_B)),
     Some(HeaderValue(TRUE, TOKEN_A)),
     Some(HeaderValue(FALSE, BEARER \o TOKEN_A))}

XHashHeaders ==
    {None, Some(HeaderValue(FALSE, HASH_A))}
        \cup {Some(HeaderValue(TRUE, h)) : h \in RawHashes}

\* ------------------------------------------------------------- file bytes
\* One cell of an archive file or of a request body.  k is "raw" for bytes
\* that are no valid frame, "hole" for the zero fill of a sparse write.
Cell(k, d, p, c) == [k |-> k, d |-> d, p |-> p, c |-> c]
HOLE == Cell("hole", "", "", 0)
RawChunks == {Cell("raw", "", "", 1), Cell("raw", "", "", 2)}

\* a write of data at offset off (counted in cells) through a file handle:
\* the file is zero-filled up to off when it is shorter
RECURSIVE write_at(_, _, _)
write_at(content, off, data) ==
    IF Len(content) < off THEN write_at(Append(content, HOLE), off, data)
    ELSE SubSeq(content, 1, off) \o data
            \o SubSeq(content, off + Len(data) + 1, Len(content))

Kinds == {"health", "push", "pull", "check"}
Reqs == 1..MaxReqs

\* ------------------------------------------------------------------- state
VARIABLES
    cache_dir,   \* the storage root exists
    zst,         \* slot id -> the bytes of {id}.zst, or None
    hashf,       \* slot id -> the text of {id}.hash, or None
    reqs,        \* request slot -> the request being handled there
    zst_by,      \* history: slot id -> the pushes that wrote the archive since its truncation
    same_push,   \* history: slot id -> archive and fingerprint were written by one push
    failed,      \* history: slot id -> some push to it ended with an error status
    local,       \* the client's directories: name -> its files, or None
    config,      \* the client's volt.toml and server profiles
    cli,         \* the client command in progress
    fresh,       \* history: the client's last push succeeded and nothing changed since
    run,         \* the run flow of the client: where run_build is
    fp           \* the fingerprints taken of the client's directories

store == <<cache_dir, zst, hashf>>
history == <<zst_by, same_push, failed>>

Idle ==
    [pc |-> "idle", kind |-> "", volt_id |-> <<>>, auth |-> None,
     xhash |-> None, recv |-> <<>>, buf |-> <<>>, off |-> 0,
     status |-> 0, enc |-> FALSE, rbody |-> <<>>,
     ran |-> FALSE, fs |-> FALSE, ioerr |-> FALSE, overlap |-> FALSE,
     pre_zst |-> None, pre_hash |-> None, opened |-> FALSE, echo |-> None]

\* A response stays in its slot for one state, the one that follows the step
\* that produced it; the next step of the system finds the slot free.
Live == [q \in Reqs |-> IF reqs[q].pc = "done" THEN Idle ELSE reqs[q]]

ServerInit ==
    /\ cache_dir = FALSE
    /\ zst = [id \in VoltIds |-> None]
    /\ hashf = [id \in VoltIds |-> None]
    /\ reqs = [r \in Reqs |-> Idle]
    /\ zst_by = [id \in VoltIds |-> {}]
    /\ same_push = [id \in VoltIds |-> FALSE]
    /\ failed = [id \in VoltIds |-> FALSE]

\* the request in slot r answers with status st; f are the other fields it sets
Respond(r, st, f) ==
    reqs' = [Live EXCEPT ![r] = [x \in DOMAIN Idle |->
                IF x = "pc" THEN "done"
                ELSE IF x = "status" THEN st
                ELSE IF x \in DOMAIN f THEN f[x] ELSE Live[r][x]]]

\* the request in slot r goes on to step pc with the fields f set
Goto(r, pc, f) ==
    reqs' = [Live EXCEPT ![r] = [x \in DOMAIN Idle |->
                IF x = "pc" THEN pc
                ELSE IF x \in DOMAIN f THEN f[x] ELSE Live[r][x]]]

\* ---------------------------------------------------------- auth_middleware
\* a faulty variant: a token sent without the "Bearer " prefix is compared as it is
auth_decision_prefix_optional(auth) ==
    LET text == header_str(auth)
        tok == IF ~IsSome(text) THEN None
               ELSE IF IsSome(strip_prefix(Get(text), BEARER))
               THEN strip_prefix(Get(text), BEARER) ELSE text
    IN  IF ~IsSome(tok) THEN 401
        ELSE IF Get(tok) # auth_token THEN 403
        ELSE 0

\* 0 when the request may proceed, else the status that rejects it
auth_decision(auth) ==
    LET tok == IF IsSome(header_str(auth))
               THEN strip_prefix(Get(header_str(auth)), BEARER) ELSE None
    IN  IF ~IsSome(tok) THEN 401
        ELSE IF Get(tok) # auth_token THEN 403
        ELSE 0

\* a request arrives for route kind with path parameter id; the auth layer is
\* the outermost one of every route
auth_middleware(r, kind, id, auth) ==
    /\ Live[r].pc = "idle"
    /\ IF auth_decision(auth) # 0
       THEN Respond(r, auth_decision(auth),
                    [kind |-> kind, volt_id |-> id, auth |-> auth])
       ELSE Goto(r, "handler", [kind |-> kind, volt_id |-> id, auth |-> auth])
    /\ UNCHANGED <<store, history>>

\* -------------------------------------------------------------------- health
health(r) ==
    /\ Live[r].pc = "handler" /\ Live[r].kind = "health"
    /\ Respond(r, 200, [ran |-> TRUE, echo |-> Some(Live[r].volt_id)])
    /\ UNCHANGED <<store, history>>

\* ---------------------------------------------------------------- check_hash
\* a faulty variant: the stored text is compared untrimmed
check_decision_untrimmed(client_hash, server_hash) ==
    IF IsSome(client_hash) /\ IsSome(server_hash)
    THEN IF Get(client_hash) = Get(server_hash) THEN 304 ELSE 200
    ELSE IF ~IsSome(server_hash) THEN 404
    ELSE 400

\* the match of check_hash over (client_hash, server_hash)
check_decision(client_hash, server_hash) ==
    IF IsSome(client_hash) /\ IsSome(server_hash)
    THEN IF Get(client_hash) = trim(Get(server_hash)) THEN 304 ELSE 200
    ELSE IF ~IsSome(server_hash) THEN 404
    ELSE 400

\* tokio::fs::read_to_string(path).await.ok(): None when the file is absent or
\* the read fails
read_to_string_ok(file, ok) == IF ok THEN file ELSE None

check_hash(r, xhash, ok) ==
    /\ Live[r].pc = "handler" /\ Live[r].kind = "check"
    /\ LET id == Live[r].volt_id
           client_hash == header_str(xhash)
       IN  IF ~IsUuid(id)
           THEN Respond(r, 400, [ran |-> TRUE])
           ELSE LET server_hash == read_to_string_ok(hashf[id], ok)
                IN  Respond(r, check_decision(client_hash, server_hash),
                            [ran |-> TRUE, fs |-> TRUE,
                             ioerr |-> ~ok /\ IsSome(hashf[id]), xhash |-> xhash])
    /\ UNCHANGED <<store, history>>

\* ---------------------------------------------------------------------- pull
\* a faulty variant: the stored text is compared untrimmed
pull_not_modified_untrimmed(client_hash, server_hash) ==
    /\ IsSome(client_hash) /\ IsSome(server_hash)
    /\ Get(client_hash) = Get(server_hash)

\* a faulty variant: a request without a fingerprint counts as up to date
pull_not_modified_lenient(client_hash, server_hash) ==
    /\ IsSome(server_hash)
    /\ IsSome(client_hash) => Get(client_hash) = trim(Get(server_hash))

\* the test of pull's first branch: both hashes are there and agree
pull_not_modified(client_hash, server_hash) ==
    /\ IsSome(client_hash) /\ IsSome(server_hash)
    /\ Get(client_hash) = trim(Get(server_hash))

\* pull up to its return of 304: validation, the read of {id}.hash, the test
pull_read_hash(r, xhash, ok) ==
    /\ Live[r].pc = "handler" /\ Live[r].kind = "pull"
    /\ LET id == Live[r].volt_id
           client_hash == header_str(xhash)
       IN  IF ~IsUuid(id)
           THEN Respond(r, 400, [ran |-> TRUE])
           ELSE LET server_hash == read_to_string_ok(hashf[id], ok)
                    f == [ran |-> TRUE, fs |-> TRUE,
                          ioerr |-> ~ok /\ IsSome(hashf[id]), xhash |-> xhash]
                IN  IF pull_not_modified(client_hash, server_hash)
                    THEN Respond(r, 304, f)
                    ELSE Goto(r, "open", f)
    /\ UNCHANGED <<store, history>>

\* the status File::open({id}.zst) leads to: NotFound, another error, success
pull_open_status(file, ok) ==
    IF ~IsSome(file) THEN 404 ELSE IF ~ok THEN 500 ELSE 200

\* a faulty variant: the archive is opened for writing and truncated
pull_open_truncate(r, ok) ==
    /\ Live[r].pc = "open"
    /\ LET id == Live[r].volt_id
           st == pull_open_status(zst[id], ok)
       IN  IF st # 200
           THEN /\ Respond(r, st, [opened |-> TRUE, ioerr |-> Live[r].ioerr \/ st = 500])
                /\ zst' = zst
           ELSE /\ Goto(r, "body", [opened |-> TRUE, status |-> 200, enc |-> TRUE,
                                    off |-> 0])
                /\ zst' = [zst EXCEPT ![id] = Some(<<>>)]
    /\ UNCHANGED <<cache_dir, hashf, history>>

\* File::open of {id}.zst and the response built on it; the body is streamed
\* from the open file afterwards
pull_open(r, ok) ==
    /\ Live[r].pc = "open"
    /\ LET st == pull_open_status(zst[Live[r].volt_id], ok)
       IN  IF st # 200
           THEN Respond(r, st, [opened |-> TRUE, ioerr |-> Live[r].ioerr \/ st = 500])
           ELSE Goto(r, "body", [opened |-> TRUE, status |-> 200, enc |-> TRUE,
                                 off |-> 0])
    /\ UNCHANGED <<store, history>>

\* ReaderStream: one more read of the open file, or its end
pull_stream(r) ==
    /\ Live[r].pc = "body"
    /\ LET content == Get(zst[Live[r].volt_id])
           off == Live[r].off
       IN  IF off < Len(content)
           THEN Goto(r, "body", [rbody |-> Append(Live[r].rbody, content[off + 1]),
                                 off |-> off + 1])
           ELSE Respond(r, 200, [off |-> off])
    /\ UNCHANGED <<store, history>>

\* ---------------------------------------------------------------------- push
\* the pushes that hold {id}.zst open or are about to write {id}.hash
Writing(id) ==
    {q \in Reqs : /\ Live[q].kind = "push" /\ Live[q].volt_id = id
                  /\ Live[q].pc \in {"create", "stream", "hash"}}

\* history: the push in slot r ends with status st
PushEnds(r, st) ==
    failed' = [failed EXCEPT ![Live[r].volt_id] = @ \/ st # 200]

\* push up to its first await: validation, then create_dir_all(cache_dir).
\* snap tells whether the history fields pre_zst and pre_hash are kept: the
\* files of the slot as they are when the push starts.
push_create_dir(r, ok, snap) ==
    /\ Live[r].pc = "handler" /\ Live[r].kind = "push"
    /\ LET id == Live[r].volt_id
       IN  IF ~IsUuid(id)
           THEN /\ Respond(r, 400, [ran |-> TRUE])
                /\ UNCHANGED <<store, history>>
           ELSE IF ~ok
           THEN /\ Respond(r, 500, [ran |-> TRUE, fs |-> TRUE, ioerr |-> TRUE,
                                    pre_zst |-> IF snap THEN zst[id] ELSE None,
                                    pre_hash |-> IF snap THEN hashf[id] ELSE None])
                /\ PushEnds(r, 500)
                /\ UNCHANGED <<store, zst_by, same_push>>
           ELSE /\ reqs' = [q \in Reqs |->
                      IF q = r
                      THEN [Live[r] EXCEPT !.pc = "create", !.ran = TRUE, !.fs = TRUE,
                                           !.pre_zst = IF snap THEN zst[id] ELSE None,
                                           !.pre_hash = IF snap THEN hashf[id] ELSE None,
                                           !.overlap = Writing(id) # {}]
                      ELSE IF q \in Writing(id)
                      THEN [Live[q] EXCEPT !.overlap = TRUE]
                      ELSE Live[q]]
                /\ cache_dir' = TRUE
                /\ UNCHANGED <<zst, hashf, history>>

\* a faulty variant: the file is opened for writing without being truncated
file_create_keep(file) == IF IsSome(file) THEN file ELSE Some(<<>>)

\* the file after File::create: empty, whatever it held
file_create(file) == Some(<<>>)

\* a faulty variant: the archive of another slot is created or truncated too
push_create_file_shared(r, ok) ==
    /\ Live[r].pc = "create"
    /\ LET id == Live[r].volt_id
       IN  IF ok
           THEN /\ zst' = [i \in VoltIds |-> IF i \in {id, UUID_2} THEN Some(<<>>) ELSE zst[i]]
                /\ zst_by' = [zst_by EXCEPT ![id] = {r}]
                /\ same_push' = [same_push EXCEPT ![id] = FALSE]
                /\ Goto(r, "stream", [off |-> 0])
                /\ UNCHANGED <<cache_dir, hashf, failed>>
           ELSE /\ Respond(r, 500, [ioerr |-> TRUE])
                /\ PushEnds(r, 500)
                /\ UNCHANGED <<store, zst_by, same_push>>

\* File::create({id}.zst): the file is created, or truncated when it exists
push_create_file(r, ok) ==
    /\ Live[r].pc = "create"
    /\ LET id == Live[r].volt_id
       IN  IF ok
           THEN /\ zst' = [zst EXCEPT ![id] = file_create(zst[id])]
                /\ zst_by' = [zst_by EXCEPT ![id] = {r}]
                /\ same_push' = [same_push EXCEPT ![id] = FALSE]
                /\ Goto(r, "stream", [off |-> 0])
                /\ UNCHANGED <<cache_dir, hashf, failed>>
           ELSE /\ Respond(r, 500, [ioerr |-> TRUE])
                /\ PushEnds(r, 500)
                /\ UNCHANGED <<store, zst_by, same_push>>

\* what BufWriter::write_all does with one chunk: "buffer" keeps it in memory,
\* "through" writes the buffered bytes and the chunk, "flush_first" writes the
\* buffered bytes and keeps the chunk (the chunk's size against the capacity
\* left decides)
WriteModes == {"buffer", "through", "flush_first"}

\* the bytes a write_all in this mode hands to the file
write_all_data(mode, buf, chunk) ==
    IF mode = "through" THEN Append(buf, chunk)
    ELSE IF mode = "flush_first" THEN buf
    ELSE <<>>

\* the bytes a write_all in this mode leaves in the buffer
write_all_buf(mode, buf, chunk) ==
    IF mode = "through" THEN <<>>
    ELSE IF mode = "flush_first" THEN <<chunk>>
    ELSE Append(buf, chunk)

\* one turn of the loop: stream.next() yields a chunk, write_all(&chunk)
push_chunk(r, chunk, mode, ok) ==
    /\ Live[r].pc = "stream"
    /\ Len(Live[r].recv) < MaxBody
    /\ mode = "flush_first" => Live[r].buf # <<>>
    /\ LET id == Live[r].volt_id
           data == write_all_data(mode, Live[r].buf, chunk)
       IN  IF data = <<>>
           THEN /\ ok
                /\ Goto(r, "stream", [recv |-> Append(Live[r].recv, chunk),
                                      buf |-> write_all_buf(mode, Live[r].buf, chunk)])
                /\ UNCHANGED <<store, history>>
           ELSE IF ok
           THEN /\ zst' = [zst EXCEPT ![id] = Some(write_at(Get(zst[id]), Live[r].off, data))]
                /\ zst_by' = [zst_by EXCEPT ![id] = @ \cup {r}]
                /\ same_push' = [same_push EXCEPT ![id] = FALSE]
                /\ Goto(r, "stream", [recv |-> Append(Live[r].recv, chunk),
                                      buf |-> write_all_buf(mode, Live[r].buf, chunk),
                                      off |-> Live[r].off + Len(data)])
                /\ UNCHANGED <<cache_dir, hashf, failed>>
           ELSE /\ Respond(r, 500, [recv |-> Append(Live[r].recv, chunk), ioerr |-> TRUE])
                /\ PushEnds(r, 500)
                /\ UNCHANGED <<store, zst_by, same_push>>

\* stream.next() yields an error: the request ends, the buffered bytes are dropped
push_stream_error(r) ==
    /\ Live[r].pc = "stream"
    /\ Respond(r, 400, [buf |-> <<>>])
    /\ PushEnds(r, 400)
    /\ UNCHANGED <<store, zst_by, same_push>>

\* the stream has ended: writer.flush()
push_flush(r, ok) ==
    /\ Live[r].pc = "stream"
    /\ LET id == Live[r].volt_id
       IN  IF ok
           THEN /\ zst' = [zst EXCEPT ![id] =
                              Some(write_at(Get(zst[id]), Live[r].off, Live[r].buf))]
                /\ zst_by' = [zst_by EXCEPT ![id] =
                              IF Live[r].buf = <<>> THEN @ ELSE @ \cup {r}]
                /\ same_push' = [same_push EXCEPT ![id] =
                              IF Live[r].buf = <<>> THEN @ ELSE FALSE]
                /\ Goto(r, "hash", [buf |-> <<>>, off |-> Live[r].off + Len(Live[r].buf)])
                /\ UNCHANGED <<cache_dir, hashf, failed>>
           ELSE /\ Respond(r, 500, [ioerr |-> TRUE])
                /\ PushEnds(r, 500)
                /\ UNCHANGED <<store, zst_by, same_push>>

\* headers.get("X-Volt-Hash")...unwrap_or_default(): the empty string when absent
push_hash_value(xhash) ==
    IF IsSome(header_str(xhash)) THEN Get(header_str(xhash)) ELSE <<>>

\* fs::write({id}.hash, hash); a failed write may have truncated the file
HashWriteOutcomes == {"ok", "failed", "failed_truncated"}

\* a faulty variant: a push whose hash write fails removes its archive
push_write_hash_cleanup(r, xhash, outcome) ==
    /\ Live[r].pc = "hash"
    /\ LET id == Live[r].volt_id
           hash == push_hash_value(xhash)
       IN  IF outcome = "ok"
           THEN /\ hashf' = [hashf EXCEPT ![id] = Some(hash)]
                /\ same_push' = [same_push EXCEPT ![id] = zst_by[id] = {r}]
                /\ Respond(r, 200, [xhash |-> xhash])
                /\ PushEnds(r, 200)
                /\ UNCHANGED <<cache_dir, zst, zst_by>>
           ELSE /\ hashf' = [hashf EXCEPT ![id] =
                       IF outcome = "failed_truncated" THEN Some(<<>>) ELSE @]
                /\ zst' = [zst EXCEPT ![id] = None]
                /\ Respond(r, 500, [xhash |-> xhash, ioerr |-> TRUE])
                /\ PushEnds(r, 500)
                /\ UNCHANGED <<cache_dir, zst_by, same_push>>

push_write_hash(r, xhash, outcome) ==
    /\ Live[r].pc = "hash"
    /\ LET id == Live[r].volt_id
           hash == push_hash_value(xhash)
       IN  IF outcome = "ok"
           THEN /\ hashf' = [hashf EXCEPT ![id] = Some(hash)]
                /\ same_push' = [same_push EXCEPT ![id] = zst_by[id] = {r}]
                /\ Respond(r, 200, [xhash |-> xhash])
                /\ PushEnds(r, 200)
                /\ UNCHANGED <<cache_dir, zst, zst_by>>
           ELSE /\ hashf' = [hashf EXCEPT ![id] =
                       IF outcome = "failed_truncated" THEN Some(<<>>) ELSE @]
                /\ Respond(r, 500, [xhash |-> xhash, ioerr |-> TRUE])
                /\ PushEnds(r, 500)
                /\ UNCHANGED <<cache_dir, zst, zst_by, same_push>>

\* ------------------------------------------------------ the store on its own
\* s is a prefix of t
IsPrefix(s, t) == Len(s) <= Len(t) /\ SubSeq(t, 1, Len(s)) = s

\* Requests arrive at the store and are handled in the slots given; each
\* handler step takes the inputs it reads (a header, the next chunk of the
\* request's body, the outcome of its file system call) from the sets given.
\* The body stream of a push yields the chunks of one of the bodies and then
\* ends, unless it fails before.
ServerNext(slots, kinds, ids, auths, xhashes, bodies, oks, snap) ==
    \E r \in slots :
        \/ \E kind \in kinds, id \in ids, auth \in auths :
               auth_middleware(r, kind, id, auth)
        \/ health(r)
        \/ \E xhash \in xhashes, ok \in oks : check_hash(r, xhash, ok)
        \/ \E xhash \in xhashes, ok \in oks : pull_read_hash(r, xhash, ok)
        \/ \E ok \in oks : pull_open(r, ok)
        \/ pull_stream(r)
        \/ \E ok \in oks : push_create_dir(r, ok, snap)
        \/ \E ok \in oks : push_create_file(r, ok)
        \/ \E body \in bodies, mode \in WriteModes, ok \in oks :
               /\ Len(Live[r].recv) < Len(body)
               /\ IsPrefix(Live[r].recv, body)
               /\ push_chunk(r, body[Len(Live[r].recv) + 1], mode, ok)
        \/ push_stream_error(r)
        \/ \E body \in bodies, ok \in oks :
               /\ Live[r].recv = body
               /\ push_flush(r, ok)
        \/ \E xhash \in xhashes, outcome \in HashWriteOutcomes :
               push_write_hash(r, xhash, outcome)

\* the Authorization value the store accepts
GoodAuth == {Some(HeaderValue(TRUE, BEARER \o auth_token))}

\* ================================================================ the client
\* ------------------------------------------------------- local directories
DirNames == {"target", "src"}

\* the directory names of the model, in path order
DirOrder == <<"src", "target">>

\* the file names of the model, in path order.  BulkName is a subdirectory
\* of BulkFiles regular files, all with the content given for it
BulkName == "bulk"
BulkFiles == 1000
FileNames == <<BulkName, "f", "g">>

\* a directory is a function from the names of its files to their contents
EmptyTree == <<>>
Trees == {EmptyTree, "f" :> 1, ("f" :> 2) @@ ("g" :> 1)}
NoLocal == [d \in DirNames |-> None]

\* the contents of the files of a directory, in path order
\* the regular files of a directory in path order, as <<name, i>>: i numbers
\* the files of the subdirectory and is 0 for the others
files_of(tree) ==
    LET names == SelectSeq(FileNames, LAMBDA n : n \in DOMAIN tree /\ n # BulkName)
    IN  (IF BulkName \in DOMAIN tree THEN [i \in 1..BulkFiles |-> <<BulkName, i>>] ELSE <<>>)
            \o [j \in 1..Len(names) |-> <<names[j], 0>>]

contents(tree) ==
    LET files == files_of(tree)
    IN  [j \in 1..Len(files) |-> tree[files[j][1]]]

\* the files of a directory as one number, and back
RECURSIVE tree_code(_, _)
tree_code(tree, j) ==
    IF j > Len(FileNames) THEN 0
    ELSE (IF FileNames[j] \in DOMAIN tree THEN tree[FileNames[j]] ELSE 0)
            + 3 * tree_code(tree, j + 1)

RECURSIVE tree_of(_, _)
tree_of(code, j) ==
    IF j > Len(FileNames) \/ code = 0 THEN EmptyTree
    ELSE LET rest == tree_of(code \div 3, j + 1)
         IN  IF code % 3 = 0 THEN rest
             ELSE [n \in DOMAIN rest \cup {FileNames[j]} |->
                      IF n = FileNames[j] THEN code % 3 ELSE rest[n]]

\* ------------------------------------------------------------------ hash.rs
HEX == <<"0", "1", "2", "3", "4", "5", "6", "7",
         "8", "9", "a", "b", "c", "d", "e", "f">>
HexVal(c) == CHOOSE i \in 0..15 : HEX[i + 1] = c
IsLowerHex(c) == \E i \in 0..15 : HEX[i + 1] = c

MERKLE_TREE_THRESHOLD == 1000
DEFAULT_HASH == Rep("0", 64)

\* Result<String, std::io::Error>: the callers read nothing of the error
Ok(x) == Some(x)
Err == None
IsOk(result) == IsSome(result)

\* what the file system refuses during one fingerprint: the directories whose
\* tree build fails, the file names whose metadata cannot be read, the file
\* names that cannot be opened
NoFaults == [build_err |-> {}, meta_err |-> {}, open_err |-> {}]

bytes_to_hex(bytes) ==
    [j \in 1..(2 * Len(bytes)) |->
        IF j % 2 = 1 THEN HEX[(bytes[(j + 1) \div 2] \div 16) + 1]
        ELSE HEX[(bytes[j \div 2] % 16) + 1]]

\* The root of the Blake3 tree of a directory with hash_names(false): 32 bytes
\* that depend on the contents of the files in path order and not on their
\* names.  Distinct content lists of up to 7 files give roots that differ in
\* their first 8 bytes, and no root is all zero.
MerkleTree_root(tree) ==
    LET cs == contents(tree)
    IN  [j \in 1..32 |-> IF j <= Len(cs) THEN 16 + (cs[j] % 16)
                         ELSE IF j = Len(cs) + 1 THEN 255
                         ELSE 0]

\* the regular files WalkDir finds under the directories given, as
\* <<dir, name, i>> paths; a directory that does not exist yields none
RECURSIVE walk_files(_, _)
walk_files(dirs, fs) ==
    IF dirs = <<>> THEN <<>>
    ELSE LET tree == IF IsSome(fs[Head(dirs)]) THEN Get(fs[Head(dirs)]) ELSE EmptyTree
             files == files_of(tree)
         IN  [j \in 1..Len(files) |-> <<Head(dirs), files[j][1], files[j][2]>>]
                \o walk_files(Tail(dirs), fs)

count_files_in_dir(dir, fs) == Len(walk_files(<<dir>>, fs))

\* all_files.sort(): paths compare by directory first, and the files found
\* under one directory are in path order already
sort_paths(all_files) ==
    LET under(j) == SelectSeq(all_files, LAMBDA file : file[1] = DirOrder[j])
    IN  under(1) \o under(2)

\* bitwise exclusive or of two nibbles, of two 64-bit values given as 16 nibbles
XorTable ==
    [a \in 0..15 |-> [b \in 0..15 |->
        ((a + b) % 2) + 2 * (((a \div 2) + (b \div 2)) % 2)
            + 4 * (((a \div 4) + (b \div 4)) % 2) + 8 * (((a \div 8) + (b \div 8)) % 2)]]
xor_nibble(a, b) == XorTable[a][b]
xor_u64(a, b) ==
    LET x(j) == xor_nibble(a[j], b[j])
    IN  <<x(1), x(2), x(3), x(4), x(5), x(6), x(7), x(8),
          x(9), x(10), x(11), x(12), x(13), x(14), x(15), x(16)>>
ZERO_U64 == [j \in 1..16 |-> 0]

\* u64::wrapping_add of a small number to a value given as nibbles
RECURSIVE wrapping_add(_, _)
wrapping_add(v, n) ==
    IF v = <<>> THEN <<>>
    ELSE LET last == v[Len(v)] + n
         IN  Append(wrapping_add(SubSeq(v, 1, Len(v) - 1), last \div 16), last % 16)

\* u64::from_str_radix(s, 16) of a text of at most 16 characters
from_str_radix(s) ==
    IF s = <<>> \/ \E j \in 1..Len(s) : ~IsLowerHex(s[j]) THEN None
    ELSE Some([j \in 1..16 |->
                 IF j <= 16 - Len(s) THEN 0 ELSE HexVal(s[j - (16 - Len(s))])])

\* the path as it is written to a hasher
path_bytes(file) ==
    <<CHOOSE j \in 1..Len(DirOrder) : DirOrder[j] = file[1],
      CHOOSE j \in 1..Len(FileNames) : FileNames[j] = file[2],
      file[3] \div 256, (file[3] \div 16) % 16, file[3] % 16>>

\* whether the hash of the path falls under SAMPLE_RATE: a fixed tenth of
\* the paths
should_sample(file) ==
    IF file[2] = BulkName THEN file[3] % 10 = 0 ELSE file[2] = "g"

\* what hash_metadata writes: the path, then the length and the modification
\* second when the metadata can be read.  Every file has length 1 and
\* modification second 0: the changes of content the model makes keep both.
hash_metadata(file, fs, io) ==
    path_bytes(file) \o (IF file[2] \in io.meta_err THEN <<>> ELSE <<1, 0>>)

\* what hash_file_sample writes: the first bytes of the file when it opens
hash_file_sample(file, fs, io) ==
    IF file[2] \in io.open_err THEN <<>>
    ELSE <<8 + Get(fs[file[1]])[file[2]]>>

\* DefaultHasher::finish of what was written: values that differ for the
\* writes of the model
DefaultHasher_finish(written) ==
    [j \in 1..16 |-> IF j <= Len(written) THEN written[j]
                     ELSE IF j = 16 THEN Len(written)
                     ELSE 0]

\* format!("{:x}", v): lowercase hex without leading zeros
RECURSIVE format_x(_)
format_x(v) ==
    IF Len(v) > 1 /\ Head(v) = 0 THEN format_x(Tail(v))
    ELSE [j \in 1..Len(v) |-> HEX[v[j] + 1]]

\* hashes[lo..hi] folded into acc from left to right: the left half first,
\* then, once its 64 bits are there, the right half from where it ended
RECURSIVE fold_from(_, _, _, _)
fold_from(acc, hashes, lo, hi) ==
    IF lo > hi THEN acc
    ELSE IF lo = hi THEN xor_u64(acc, hashes[lo])
    ELSE LET mid == (lo + hi) \div 2
             left == fold_from(acc, hashes, lo, mid)
         IN  IF Len(left) = 16 THEN fold_from(left, hashes, mid + 1, hi) ELSE left

\* a faulty variant: the fold keeps the digest that arrives last
xor_fold_last(hashes) ==
    IF hashes = <<>> THEN ZERO_U64 ELSE hashes[Len(hashes)]

\* iter().fold(0u64, |a, b| a ^ b)
xor_fold(hashes) == fold_from(ZERO_U64, hashes, 1, Len(hashes))

\* the digest of one file: its metadata, and its first bytes when sampled
sample_hash(file, fs, io) ==
    DefaultHasher_finish(
        hash_metadata(file, fs, io)
            \o (IF should_sample(file) THEN hash_file_sample(file, fs, io) ELSE <<>>))

\* par_iter().map(..).collect(): the digests in the order of the files
hashes_of(all_files, fs, io) ==
    [j \in 1..Len(all_files) |-> sample_hash(all_files[j], fs, io)]

compute_cache_sampling(dirs, fs, io) ==
    Ok(format_x(xor_fold(hashes_of(sort_paths(walk_files(dirs, fs)), fs, io))))

\* a faulty variant: a directory that does not exist is hashed like any other
compute_cache_merkle_no_exists(dir, fs, io) ==
    IF IsSome(fs[dir]) /\ dir \notin io.build_err
    THEN Ok(bytes_to_hex(MerkleTree_root(Get(fs[dir]))))
    ELSE compute_cache_sampling(<<dir>>, fs, io)

\* a faulty variant: a failed tree build is an error of the caller
compute_cache_merkle_propagate(dir, fs, io) ==
    IF ~IsSome(fs[dir]) THEN Ok(DEFAULT_HASH)
    ELSE IF dir \notin io.build_err THEN Ok(bytes_to_hex(MerkleTree_root(Get(fs[dir]))))
    ELSE Err

compute_cache_merkle(dir, fs, io) ==
    IF ~IsSome(fs[dir]) THEN Ok(DEFAULT_HASH)
    ELSE IF dir \notin io.build_err THEN Ok(bytes_to_hex(MerkleTree_root(Get(fs[dir]))))
    ELSE compute_cache_sampling(<<dir>>, fs, io)

\* the order of str on texts of lowercase hex digits
RECURSIVE str_le(_, _)
str_le(a, b) ==
    IF a = <<>> THEN TRUE
    ELSE IF b = <<>> THEN FALSE
    ELSE IF Head(a) # Head(b) THEN HexVal(Head(a)) < HexVal(Head(b))
    ELSE str_le(Tail(a), Tail(b))

RECURSIVE sort(_)
sort(v) ==
    IF v = <<>> THEN <<>>
    ELSE LET rest == sort(Tail(v))
             before == SelectSeq(rest, LAMBDA x : ~str_le(Head(v), x))
             after == SelectSeq(rest, LAMBDA x : str_le(Head(v), x))
         IN  before \o <<Head(v)>> \o after

\* a faulty variant: the number of the round is not added
hash_val_plain(hash_str, i) ==
    LET truncated_hash == IF Len(hash_str) > 16 THEN SubSeq(hash_str, 1, 16) ELSE hash_str
        parsed == from_str_radix(truncated_hash)
    IN  IF IsSome(parsed) THEN Get(parsed) ELSE ZERO_U64

hash_val(hash_str, i) ==
    LET truncated_hash == IF Len(hash_str) > 16 THEN SubSeq(hash_str, 1, 16) ELSE hash_str
        parsed == from_str_radix(truncated_hash)
    IN  wrapping_add(IF IsSome(parsed) THEN Get(parsed) ELSE ZERO_U64, i)

\* a faulty variant: the place of a hash in the sorted list is added to it,
\* so equal hashes contribute different values
combined_placed(merkle_hashes, i) ==
    xor_fold([j \in 1..Len(merkle_hashes) |-> hash_val(merkle_hashes[j], i + j)])

\* round i of the combine: the fold over the sorted hashes
combined(merkle_hashes, i) ==
    xor_fold([j \in 1..Len(merkle_hashes) |-> hash_val(merkle_hashes[j], i)])

\* the 16 nibbles of a round pushed to the result, the highest first
push_nibbles(value) == [j \in 1..16 |-> HEX[value[j] + 1]]

\* the four rounds over the hashes of the directories
rounds(merkle_hashes) ==
    push_nibbles(combined(merkle_hashes, 0)) \o push_nibbles(combined(merkle_hashes, 1))
        \o push_nibbles(combined(merkle_hashes, 2)) \o push_nibbles(combined(merkle_hashes, 3))

\* the loop over dirs: the hash of each directory, or the first error
collect_hashes(each) ==
    IF \E j \in 1..Len(each) : ~IsOk(each[j]) THEN Err
    ELSE Ok([j \in 1..Len(each) |-> Get(each[j])])

compute_cache_merkle_multi(dirs, fs, io) ==
    LET merkle_hashes ==
            collect_hashes([j \in 1..Len(dirs) |-> compute_cache_merkle(dirs[j], fs, io)])
    IN  IF ~IsOk(merkle_hashes) THEN Err
        ELSE Ok(rounds(sort(Get(merkle_hashes))))

RECURSIVE total_files(_, _)
total_files(dirs, fs) ==
    IF dirs = <<>> THEN 0
    ELSE count_files_in_dir(Head(dirs), fs) + total_files(Tail(dirs), fs)

\* a faulty variant: a total of exactly the threshold takes the sampling hash
compute_cache_below(dirs, fs, io) ==
    IF dirs = <<>> THEN Ok(DEFAULT_HASH)
    ELSE IF Len(dirs) = 1 THEN compute_cache_merkle(dirs[1], fs, io)
    ELSE IF total_files(dirs, fs) < MERKLE_TREE_THRESHOLD
    THEN compute_cache_merkle_multi(dirs, fs, io)
    ELSE compute_cache_sampling(dirs, fs, io)

\* a faulty variant: only the first directory of the list is hashed
compute_cache_first(dirs, fs, io) ==
    IF dirs = <<>> THEN Ok(DEFAULT_HASH) ELSE compute_cache_merkle(dirs[1], fs, io)

compute_cache(dirs, fs, io) ==
    IF dirs = <<>> THEN Ok(DEFAULT_HASH)
    ELSE IF Len(dirs) = 1 THEN compute_cache_merkle(dirs[1], fs, io)
    ELSE IF total_files(dirs, fs) <= MERKLE_TREE_THRESHOLD
    THEN compute_cache_merkle_multi(dirs, fs, io)
    ELSE compute_cache_sampling(dirs, fs, io)

\* ------------------------------------------------------------ the archive
\* tar::Builder: append_dir_all for each cache directory, then finish.  One
\* cell holds the entries of one directory; the last cell is the terminator.
\* None when a directory does not exist.
tar_builder(cache, fs) ==
    IF \E j \in 1..Len(cache) : ~IsSome(fs[cache[j]]) THEN None
    ELSE Some([j \in 1..Len(cache) |->
                  Cell("tar", cache[j], "", tree_code(Get(fs[cache[j]]), 1))]
              \o <<Cell("tar_end", "", "", 0)>>)

\* zstd Encoder: one frame; its last block is the one that holds the end of
\* the input
zstd_encode(buffer) ==
    [j \in 1..Len(buffer) |->
        Cell(IF buffer[j].k = "tar_end" THEN "zstd_end" ELSE "zstd",
             buffer[j].d, buffer[j].p, buffer[j].c)]

\* zstd::stream::decode_all: the concatenation of the frames of the input;
\* None when a cell is no zstd block or the last frame is not complete
decode_all(compressed) ==
    IF compressed = <<>> THEN Some(<<>>)
    ELSE IF \/ \E j \in 1..Len(compressed) : compressed[j].k \notin {"zstd", "zstd_end"}
            \/ compressed[Len(compressed)].k # "zstd_end"
    THEN None
    ELSE Some([j \in 1..Len(compressed) |->
                  Cell(IF compressed[j].k = "zstd_end" THEN "tar_end" ELSE "tar",
                       compressed[j].d, compressed[j].p, compressed[j].c)])

\* the entries Archive::entries reads from the decoded bytes, up to the
\* terminator: for each directory its own entry and one entry for each file
RECURSIVE archive_entries(_)
archive_entries(buffer) ==
    IF buffer = <<>> \/ Head(buffer).k # "tar" THEN <<>>
    ELSE LET tree == tree_of(Head(buffer).c, 1)
             names == SelectSeq(FileNames, LAMBDA n : n \in DOMAIN tree)
         IN  <<Cell("dir", Head(buffer).d, "", 0)>>
                \o [j \in 1..Len(names) |-> Cell("file", Head(buffer).d, names[j], tree[names[j]])]
                \o archive_entries(Tail(buffer))

\* Entry::unpack_in of one entry: a directory is created when it is missing, a
\* file is written over what is there
unpack_entry(fs, entry) ==
    LET old == IF IsSome(fs[entry.d]) THEN Get(fs[entry.d]) ELSE EmptyTree
    IN  IF entry.k = "dir" THEN [fs EXCEPT ![entry.d] = Some(old)]
        ELSE [fs EXCEPT ![entry.d] =
                 Some([n \in DOMAIN old \cup {entry.p} |->
                          IF n = entry.p THEN entry.c ELSE old[n]])]

\* a faulty variant: the directory is left as it is
remove_dir_all_skip(fs, dir) == fs

\* tokio::fs::remove_dir_all(dir)
remove_dir_all(fs, dir) == [fs EXCEPT ![dir] = None]

\* ------------------------------------------------------------------ config
Server(name, token) == [name |-> name, token |-> token]

VoltConfig(volt_id, hash, servers) ==
    [volt_id |-> volt_id,
     settings |-> [server |-> "main", cache |-> <<"target">>, hash |-> hash],
     servers |-> servers]

Configs ==
    {VoltConfig(UUID_1, None, {Server("main", Some(TOKEN_A))}),
     VoltConfig(UUID_1, Some(<<"src">>), {Server("main", Some(TOKEN_A))}),
     VoltConfig(UUID_1, None, {Server("other", Some(TOKEN_A))}),
     VoltConfig(UUID_1, None, {Server("main", None)}),
     VoltConfig(UUID_1, None, {Server("main", Some(TOKEN_B))}),
     VoltConfig(BAD_ID_1, None, {Server("main", Some(TOKEN_A))})}

\* a faulty variant: a profile that is not loaded falls back to a loaded one
get_server_fallback(cfg, route) ==
    LET named == {s \in cfg.servers : s.name = cfg.settings.server}
        found == IF named = {} THEN cfg.servers ELSE named
    IN  IF found = {} THEN None
        ELSE LET server == CHOOSE s \in found : TRUE
             IN  Some([route |-> route, volt_id |-> cfg.volt_id,
                       header |-> IF IsSome(server.token)
                                  THEN BEARER \o Get(server.token) ELSE <<>>])

\* VoltConfig::get_server: None when the profile named in the settings is not
\* loaded, else the route with the slot id and the Authorization value
get_server(cfg, route) ==
    LET found == {s \in cfg.servers : s.name = cfg.settings.server}
    IN  IF found = {} THEN None
        ELSE LET server == CHOOSE s \in found : TRUE
             IN  Some([route |-> route, volt_id |-> cfg.volt_id,
                       header |-> IF IsSome(server.token)
                                  THEN BEARER \o Get(server.token) ELSE <<>>])

\* a faulty variant: the pull fingerprints the cache directories
pull_hash_dirs_cache(settings) == settings.cache

\* settings.hash.as_ref().unwrap_or(&settings.cache), in pull_cache
pull_hash_dirs(settings) ==
    IF IsSome(settings.hash) THEN Get(settings.hash) ELSE settings.cache

\* the same expression in push_cache
push_hash_dirs(settings) ==
    IF IsSome(settings.hash) THEN Get(settings.hash) ELSE settings.cache

\* --------------------------------------------------------- the client state
NoReq == [kind |-> "", volt_id |-> <<>>, auth |-> None, xhash |-> None, body |-> <<>>]

IdleCli ==
    [pc |-> "idle", cmd |-> "", req |-> NoReq, status |-> 0, got |-> FALSE,
     outcome |-> "", pre_local |-> NoLocal, decoded |-> <<>>, i |-> 0]

\* a command starts: what it remembers of the directories is history
Started(cmd) == [IdleCli EXCEPT !.cmd = cmd, !.pre_local = local]

\* a command returns
End(c, outcome) == [c EXCEPT !.pc = "end", !.outcome = outcome]

\* run_build has not been called
RunOff == [pc |-> "off", pull_err |-> FALSE, status |-> "", exit |-> ""]

\* no fingerprint is being taken
FpOff ==
    [pc |-> "off", dirs |-> <<>>, io |-> NoFaults, hashes |-> <<>>, out |-> None, prev |-> None]

ClientInit ==
    /\ local = NoLocal
    /\ config \in Configs
    /\ cli = IdleCli
    /\ fresh = "no"
    /\ run = RunOff
    /\ fp = FpOff

\* history: the fingerprint directories after a step that leaves the
\* directories as fs
FreshAfter(fs) ==
    IF \E j \in 1..Len(push_hash_dirs(config.settings)) :
           fs[push_hash_dirs(config.settings)[j]] # local[push_hash_dirs(config.settings)[j]]
    THEN "no" ELSE fresh

\* the request a command sends
Request(kind, server, hash, body) ==
    [kind |-> kind, volt_id |-> server.volt_id,
     auth |-> Some(HeaderValue(TRUE, server.header)),
     xhash |-> Some(HeaderValue(TRUE, hash)), body |-> body]

\* a faulty variant: every status counts as a success
is_success_any(status) == TRUE

\* StatusCode::is_success
is_success(status) == status >= 200 /\ status < 300

\* ---------------------------------------------------------------- pull_cache
\* pull_cache up to send(): the server profile, the fingerprint, the request
pull_cache_begin ==
    /\ cli.pc \in {"idle", "end"}
    /\ LET server == get_server(config, "pull")
           hash == compute_cache(pull_hash_dirs(config.settings), local, NoFaults)
       IN  IF ~IsSome(server)
           THEN cli' = End(Started("pull"), "config_error")
           ELSE IF ~IsOk(hash)
           THEN cli' = End(Started("pull"), "hash_error")
           ELSE cli' = [Started("pull") EXCEPT !.pc = "send",
                            !.req = Request("pull", Get(server), Get(hash), <<>>)]
    /\ reqs' = Live
    /\ UNCHANGED <<store, history, local, config, fresh>>

\* pull_cache from the response to the decoded archive.  net: send() returned
\* a response; got: bytes() returned the body
\* a faulty variant: the cache directories are removed before the body is
\* decompressed, so a failed decompression is met with the removal under way
pull_cache_response_remove_first(c, net, got, resp) ==
    LET seen == [c EXCEPT !.status = resp.status]
        decoder == decode_all(resp.rbody)
    IN  IF ~net THEN End(c, "connect_error")
        ELSE IF resp.status = 304 THEN End(seen, "up_to_date")
        ELSE IF ~is_success(resp.status) THEN End(seen, "status_error")
        ELSE IF ~got THEN End(seen, "body_error")
        ELSE [seen EXCEPT !.pc = "remove", !.got = TRUE, !.i = 1,
                          !.outcome = IF IsSome(decoder) THEN "" ELSE "decode_error",
                          !.decoded = IF IsSome(decoder) THEN Get(decoder) ELSE <<>>]

pull_cache_response(c, net, got, resp) ==
    LET seen == [c EXCEPT !.status = resp.status]
        decoder == decode_all(resp.rbody)
    IN  IF ~net THEN End(c, "connect_error")
        ELSE IF resp.status = 304 THEN End(seen, "up_to_date")
        ELSE IF ~is_success(resp.status) THEN End(seen, "status_error")
        ELSE IF ~got THEN End(seen, "body_error")
        ELSE IF ~IsSome(decoder) THEN End([seen EXCEPT !.got = TRUE], "decode_error")
        ELSE [seen EXCEPT !.pc = "remove", !.got = TRUE,
                          !.decoded = Get(decoder), !.i = 1]

\* one turn of the loop over settings.cache: remove_dir_all when it exists
pull_remove_dir(ok) ==
    /\ cli.pc = "remove"
    /\ LET cache == config.settings.cache
           dir == cache[cli.i]
       IN  IF cli.i > Len(cache)
           THEN /\ cli' = [cli EXCEPT !.pc = "unpack", !.i = 1]
                /\ UNCHANGED <<local, fresh>>
           ELSE IF ~IsSome(local[dir])
           THEN /\ ok
                /\ cli' = [cli EXCEPT !.i = @ + 1]
                /\ UNCHANGED <<local, fresh>>
           ELSE IF ok
           THEN /\ local' = remove_dir_all(local, dir)
                /\ fresh' = FreshAfter(local')
                /\ cli' = [cli EXCEPT !.i = @ + 1]
           ELSE /\ cli' = End(cli, "remove_error")
                /\ UNCHANGED <<local, fresh>>
    /\ reqs' = Live
    /\ UNCHANGED <<store, history, config>>

\* Archive::unpack("."): one entry of the archive, or its end
pull_unpack(ok) ==
    /\ cli.pc = "unpack"
    /\ LET entries == archive_entries(cli.decoded)
       IN  IF cli.i > Len(entries)
           THEN /\ ok
                /\ cli' = End(cli, "restored")
                /\ UNCHANGED <<local, fresh>>
           ELSE IF ok
           THEN /\ local' = unpack_entry(local, entries[cli.i])
                /\ fresh' = FreshAfter(local')
                /\ cli' = [cli EXCEPT !.i = @ + 1]
           ELSE /\ cli' = End(cli, "unpack_error")
                /\ UNCHANGED <<local, fresh>>
    /\ reqs' = Live
    /\ UNCHANGED <<store, history, config>>

\* ---------------------------------------------------------------- push_cache
\* push_cache up to send(): the server profile, the fingerprint, the archive
push_cache_begin ==
    /\ cli.pc \in {"idle", "end"}
    /\ LET server == get_server(config, "push")
           hash == compute_cache(push_hash_dirs(config.settings), local, NoFaults)
           buffer == tar_builder(config.settings.cache, local)
       IN  IF ~IsSome(server)
           THEN /\ cli' = End(Started("push"), "config_error")
                /\ fresh' = fresh
           ELSE IF ~IsOk(hash)
           THEN /\ cli' = End(Started("push"), "hash_error")
                /\ fresh' = fresh
           ELSE IF ~IsSome(buffer)
           THEN /\ cli' = End(Started("push"), "archive_error")
                /\ fresh' = fresh
           ELSE /\ cli' = [Started("push") EXCEPT !.pc = "send",
                              !.req = Request("push", Get(server), Get(hash),
                                              zstd_encode(Get(buffer)))]
                /\ fresh' = "pushing"
    /\ reqs' = Live
    /\ UNCHANGED <<store, history, local, config>>

push_cache_response(c, net, resp) ==
    LET seen == [c EXCEPT !.status = resp.status]
    IN  IF ~net THEN End(c, "connect_error")
        ELSE IF ~is_success(resp.status) THEN End(seen, "status_error")
        ELSE End(seen, "cached")

\* send() fails before the request reaches the server
send_error ==
    /\ cli.pc = "send"
    /\ cli' = End(cli, "connect_error")
    /\ fresh' = IF cli.cmd = "push" THEN "no" ELSE fresh
    /\ reqs' = Live
    /\ UNCHANGED <<store, history, local, config>>

\* the wrapped build command, or the user, changes a configured directory
wrap ==
    /\ cli.pc \in {"idle", "end"}
    /\ \E d \in DirNames, v \in {None} \cup {Some(t) : t \in Trees} :
          /\ \/ \E j \in 1..Len(config.settings.cache) : config.settings.cache[j] = d
             \/ \E j \in 1..Len(push_hash_dirs(config.settings)) :
                    push_hash_dirs(config.settings)[j] = d
          /\ v # local[d]
          /\ local' = [local EXCEPT ![d] = v]
    /\ fresh' = FreshAfter(local')
    /\ cli' = IdleCli
    /\ reqs' = Live
    /\ UNCHANGED <<store, history, config>>

\* --------------------------------------------------- the client and the store
\* The store handles the client's request in slot 1; the step that answers it
\* is the step in which the client sees the response.  In this specification
\* the store handles one request at a time.
VoltRequest ==
    /\ Live[2].pc = "idle"
    /\ ServerNext({1}, IF cli.pc = "send" THEN {cli.req.kind} ELSE {},
                  {cli.req.volt_id}, {cli.req.auth}, {cli.req.xhash}, {cli.req.body},
                  BOOLEAN, FALSE)
    /\ IF reqs'[1].pc = "done"
       THEN \E net \in BOOLEAN, got \in BOOLEAN :
              /\ cli' = IF cli.cmd = "pull"
                        THEN pull_cache_response(cli, net, got, reqs'[1])
                        ELSE push_cache_response(cli, net, reqs'[1])
              /\ fresh' = IF cli.cmd = "pull" THEN fresh
                          ELSE IF fresh = "pushing" /\ cli'.outcome = "cached"
                          THEN "yes" ELSE "no"
       ELSE /\ cli' = [cli EXCEPT !.pc = "wait"]
            /\ fresh' = fresh
    /\ UNCHANGED <<local, config>>

\* Requests of other clients to the same slot are handled in slot 2.
OtherRequest ==
    /\ Live[1].pc = "idle"
    /\ ServerNext({2}, {"push", "check", "health"}, {UUID_1}, GoodAuth,
                  {Some(HeaderValue(TRUE, HASH_A))}, {<<Cell("raw", "", "", 1)>>},
                  {TRUE}, FALSE)
    /\ fresh' = IF Live[2].kind = "push" \/ reqs'[2].kind = "push" THEN "no" ELSE fresh
    /\ UNCHANGED <<local, config, cli>>

\* the commands volt pull and volt push, run in any order
ClientNext ==
    /\ \/ pull_cache_begin
       \/ push_cache_begin
       \/ send_error
       \/ \E ok \in BOOLEAN : pull_remove_dir(ok)
       \/ \E ok \in BOOLEAN : pull_unpack(ok)
       \/ wrap
       \/ VoltRequest
       \/ OtherRequest
    /\ UNCHANGED <<run, fp>>

\* ------------------------------------------------------------------ run_build
\* the outcomes of pull_cache and push_cache that are an Err
IsErr(outcome) == outcome \notin {"up_to_date", "restored", "cached"}

\* a faulty variant: an error of the pull is returned with `?`
run_build_after_pull_propagate(pulled) == IF IsErr(pulled) THEN "end" ELSE "wrap"

\* what run_build does when pull_cache has returned: `if let Err(err)` logs the
\* error and goes on
run_build_after_pull(pulled) == "wrap"

\* a faulty variant: the push is attempted whatever the exit status
run_build_after_wrap_always(status) ==
    IF status = "spawn_error" THEN "end" ELSE "push"

\* what run_build does when Command::status has returned
run_build_after_wrap(status) == IF status = "success" THEN "push" ELSE "end"

\* run_build calls pull_cache
run_build_pull ==
    /\ run.pc \in {"off", "end"}
    /\ pull_cache_begin
    /\ run' = [RunOff EXCEPT !.pc = "pull"]

\* pull_cache has returned: Command::new("sh").arg("-c").arg(wrap).status().
\* The command may change a configured directory; status is how it ends:
\* "success", "failure" (another exit code) or "spawn_error" (sh did not start).
run_build_wrap(status) ==
    /\ run.pc = "pull" /\ cli.pc = "end"
    /\ IF run_build_after_pull(cli.outcome) = "end"
       THEN /\ run' = [run EXCEPT !.pc = "end", !.pull_err = IsErr(cli.outcome), !.exit = "Err"]
            /\ UNCHANGED <<local, fresh>>
       ELSE /\ IF status = "spawn_error" THEN UNCHANGED local
               ELSE \E d \in DirNames, v \in {None} \cup {Some(t) : t \in Trees} :
                       /\ \/ \E j \in 1..Len(config.settings.cache) :
                                 config.settings.cache[j] = d
                          \/ \E j \in 1..Len(push_hash_dirs(config.settings)) :
                                 push_hash_dirs(config.settings)[j] = d
                       /\ local' = [local EXCEPT ![d] = v]
            /\ fresh' = FreshAfter(local')
            /\ run' = [run EXCEPT
                         !.pc = IF run_build_after_wrap(status) = "push" THEN "built" ELSE "end",
                         !.pull_err = IsErr(cli.outcome), !.status = status,
                         !.exit = IF status = "spawn_error" THEN "Err"
                                  ELSE IF status = "failure" THEN "FAILURE" ELSE ""]
    /\ reqs' = Live
    /\ UNCHANGED <<store, history, config, cli>>

\* the command has succeeded: run_build calls push_cache
run_build_push ==
    /\ run.pc = "built"
    /\ push_cache_begin
    /\ run' = [run EXCEPT !.pc = "push"]

\* push_cache has returned: its error is logged, the run reports success
run_build_end ==
    /\ run.pc = "push" /\ cli.pc = "end"
    /\ run' = [run EXCEPT !.pc = "end", !.exit = "SUCCESS"]
    /\ reqs' = Live
    /\ UNCHANGED <<store, history, local, config, cli, fresh>>

\* the command volt run, run again and again; other clients' requests are
\* handled between two runs
RunNext ==
    /\ \/ run_build_pull
       \/ \E status \in {"success", "failure", "spawn_error"} : run_build_wrap(status)
       \/ run_build_push
       \/ run_build_end
       \/ /\ \/ send_error
             \/ \E ok \in BOOLEAN : pull_remove_dir(ok)
             \/ \E ok \in BOOLEAN : pull_unpack(ok)
             \/ VoltRequest
             \/ run.pc \in {"off", "end"} /\ OtherRequest
          /\ UNCHANGED run
    /\ UNCHANGED fp

\* ------------------------------------------------------------ fingerprints
\* compute_cache applied to directory lists of up to MaxDirs names, on file
\* systems with and without faults
MaxDirs == 2
DirLists == UNION {[1..n -> DirNames] : n \in 0..MaxDirs}

\* "src" may hold the subdirectory of BulkFiles files
HashFs ==
    {[d \in DirNames |-> IF d = "target" THEN t ELSE u] :
        t \in {None} \cup {Some(tree) : tree \in Trees},
        u \in {None, Some(EmptyTree), Some("f" :> 1), Some(BulkName :> 1),
               Some((BulkName :> 1) @@ ("f" :> 1))}}

IoCases ==
    {NoFaults,
     [NoFaults EXCEPT !.build_err = {"target"}],
     [NoFaults EXCEPT !.meta_err = {"f"}, !.open_err = {"g"}],
     [build_err |-> {"target"}, meta_err |-> {"f", "g"}, open_err |-> {"f", "g"}]}

\* the exact-hash path: one directory, or several with at most
\* MERKLE_TREE_THRESHOLD files in total
exact_path(dirs, fs) ==
    Len(dirs) = 1 \/ (Len(dirs) > 1 /\ total_files(dirs, fs) <= MERKLE_TREE_THRESHOLD)

\* the first fingerprint of the directories
fingerprint ==
    /\ fp.pc = "input"
    /\ fp' = [fp EXCEPT !.pc = "hashed", !.out = compute_cache(fp.dirs, local, fp.io)]
    /\ UNCHANGED local

\* the fingerprint of the same directories, listed in another order: P names
\* each directory as often as the list does
fingerprint_permuted(P) ==
    /\ fp.pc = "hashed"
    /\ Len(P) = Len(fp.dirs) /\ P # fp.dirs
    /\ \A d \in DirNames :
           Cardinality({j \in 1..Len(P) : P[j] = d})
               = Cardinality({j \in 1..Len(fp.dirs) : fp.dirs[j] = d})
    /\ fp' = [fp EXCEPT !.pc = "permuted", !.dirs = P, !.prev = fp.out,
                        !.out = compute_cache(P, local, fp.io)]
    /\ UNCHANGED local

\* the fingerprint taken again, nothing changed
fingerprint_again ==
    /\ fp.pc = "hashed"
    /\ fp' = [fp EXCEPT !.pc = "again", !.prev = fp.out,
                        !.out = compute_cache(fp.dirs, local, fp.io)]
    /\ UNCHANGED local

\* the fingerprint taken after the content of one file of a listed directory
\* changed, its length and modification second as before
fingerprint_touched(d, n, c) ==
    /\ fp.pc = "hashed"
    /\ \E j \in 1..Len(fp.dirs) : fp.dirs[j] = d
    /\ IsSome(local[d]) /\ n \in DOMAIN Get(local[d]) /\ n # BulkName
    /\ c # Get(local[d])[n]
    /\ local' = [local EXCEPT ![d] = Some([Get(local[d]) EXCEPT ![n] = c])]
    /\ fp' = [fp EXCEPT !.pc = "touched", !.prev = fp.out,
                        !.out = compute_cache(fp.dirs, local', fp.io)]

\* the digests in an order the workers of par_iter may deliver them in: the
\* order of the files shifted by k places, and reversed when rev
delivered(hashes, k, rev) ==
    [j \in 1..Len(hashes) |->
        LET pos == ((j - 1 + k) % Len(hashes)) + 1
        IN  hashes[IF rev THEN Len(hashes) + 1 - pos ELSE pos]]

\* the sampling hash of directories whose fingerprint is one, the digests
\* delivered to the fold in another order
MaxShift == 2
fingerprint_scheduled(k, rev) ==
    /\ fp.pc = "hashed"
    /\ \/ Len(fp.dirs) > 1 /\ total_files(fp.dirs, local) > MERKLE_TREE_THRESHOLD
       \/ Len(fp.dirs) = 1 /\ IsSome(local[fp.dirs[1]]) /\ fp.dirs[1] \in fp.io.build_err
    /\ LET hashes == hashes_of(sort_paths(walk_files(fp.dirs, local)), local, fp.io)
       IN  /\ delivered(hashes, k, rev) # hashes
           /\ fp' = [fp EXCEPT !.pc = "scheduled", !.prev = fp.out,
                               !.out = Ok(format_x(xor_fold(delivered(hashes, k, rev))))]
    /\ UNCHANGED local

\* per-directory hashes the combine may be given: of a missing directory, two
\* roots (one of them the largest), two sampling hashes of a directory whose
\* tree build failed; and the empty text, which no directory yields and
\* which does not parse
HashStrings ==
    {DEFAULT_HASH, Rep("f", 64), <<"1", "2", "f", "f">> \o Rep("0", 60),
     <<"3", "e", "8">>, Rep("f", 16), <<>>}

\* merkle_hashes.sort() and the four rounds, on the hashes H
combine_hashes(H) ==
    /\ fp.pc = "input" /\ fp.dirs = <<>> /\ fp.io = NoFaults /\ local = NoLocal
    /\ fp' = [fp EXCEPT !.pc = "combined", !.hashes = H, !.out = Ok(rounds(sort(H)))]
    /\ UNCHANGED local

HashNext ==
    /\ \/ fingerprint
       \/ \E H \in UNION {[1..n -> HashStrings] : n \in 1..MaxDirs},
             P \in {<<>>} \cup {<<h, h>> : h \in HashStrings} : combine_hashes(H \o P)
       \/ \E k \in 0..MaxShift, rev \in BOOLEAN : fingerprint_scheduled(k, rev)
       \/ \E P \in DirLists : fingerprint_permuted(P)
       \/ fingerprint_again
       \/ \E d \in DirNames, n \in {"f", "g"}, c \in 1..2 : fingerprint_touched(d, n, c)
    /\ UNCHANGED <<store, history, reqs, config, cli, fresh, run>>

\* =========================================================== specifications
client_vars == <<local, config, cli, fresh, run, fp>>
vars == <<cache_dir, zst, hashf, reqs, zst_by, same_push, failed, local, config, cli, fresh, run, fp>>

\* a client that does nothing
ClientOff ==
    /\ local = NoLocal
    /\ config = VoltConfig(UUID_1, None, {Server("main", Some(TOKEN_A))})
    /\ cli = IdleCli
    /\ fresh = "no"
    /\ run = RunOff
    /\ fp = FpOff

Init == ServerInit /\ ClientOff

\* The store handling one request at a time, of every shape.
SeqIds == {UUID_1, BAD_ID_1, BAD_ID_2}
RawBodies == UNION {[1..n -> RawChunks] : n \in 0..MaxBody}
Next ==
    /\ ServerNext({1}, Kinds, SeqIds, AuthHeaders, XHashHeaders, RawBodies, BOOLEAN, TRUE)
    /\ UNCHANGED client_vars

Spec == Init /\ [][Next]_vars

\* The store handling requests to one slot concurrently.
ConcHashes == {Some(HeaderValue(TRUE, HASH_A)), Some(HeaderValue(TRUE, HASH_B))}
ConcBodies == UNION {[1..n -> {Cell("raw", "", "", 1)}] : n \in 0..MaxBody}
ConcNext ==
    /\ ServerNext(Reqs, {"push", "pull", "check", "health"}, {UUID_1}, GoodAuth, ConcHashes,
                  ConcBodies, BOOLEAN, FALSE)
    /\ UNCHANGED client_vars

ConcSpec == Init /\ [][ConcNext]_vars

\* The store handling pushes to one slot in request slot 1 and requests of
\* every kind to another slot in request slot 2, concurrently.
SlotsNext ==
    /\ \/ ServerNext({1}, {"push"}, {UUID_1}, GoodAuth, ConcHashes, ConcBodies, BOOLEAN, FALSE)
       \/ ServerNext({2}, {"push", "pull", "check", "health"}, {UUID_2}, GoodAuth,
                     ConcHashes, ConcBodies, BOOLEAN, FALSE)
    /\ UNCHANGED client_vars

SlotsSpec == Init /\ [][SlotsNext]_vars

\* The client, the store and the requests of other clients to the same slot.
ClientSpecInit == ServerInit /\ ClientInit

ClientSpec == ClientSpecInit /\ [][ClientNext]_vars

\* The run flow of the client, the store and the requests of other clients.
RunConfigs ==
    {VoltConfig(UUID_1, None, {Server("main", Some(TOKEN_A))}),
     VoltConfig(UUID_1, None, {Server("other", Some(TOKEN_A))}),
     VoltConfig(UUID_1, None, {Server("main", Some(TOKEN_B))})}

RunSpecInit == ServerInit /\ ClientInit /\ config \in RunConfigs

RunSpec == RunSpecInit /\ [][RunNext]_vars

\* The fingerprint of every directory list on every file system of the model.
HashInit ==
    /\ ServerInit
    /\ local \in HashFs
    /\ config = VoltConfig(UUID_1, None, {Server("main", Some(TOKEN_A))})
    /\ cli = IdleCli
    /\ fresh = "no"
    /\ run = RunOff
    /\ fp \in {[FpOff EXCEPT !.pc = "input", !.dirs = D, !.io = io] :
                  D \in DirLists, io \in IoCases}

HashSpec == HashInit /\ [][HashNext]_vars

\* ================================================================== claims
\* the ids of the model that are well-formed UUIDs, listed by hand
WellFormedIds == {UUID_1, UUID_2}

\* the fingerprint a request carries: the text of its X-Volt-Hash header
Carried(xhash) == IF IsSome(xhash) /\ Get(xhash).ascii THEN Some(Get(xhash).text) ELSE None

\* the credential a request carries: what follows "Bearer " in Authorization
Credential(auth) ==
    IF IsSome(auth) /\ Get(auth).ascii /\ Len(Get(auth).text) >= 7
       /\ SubSeq(Get(auth).text, 1, 7) = BEARER
    THEN Some(SubSeq(Get(auth).text, 8, Len(Get(auth).text)))
    ELSE None

Done(r) == reqs[r].pc = "done"

\* C2: on every route a request without a bearer credential is answered 401 and
\* one with a credential other than the configured secret 403, in both cases
\* without the handler running or the file system being touched; a request whose
\* handler runs carries exactly the configured secret.
C2_AuthGate ==
    \A r \in Reqs :
        LET q == reqs[r]
        IN  q.pc # "idle" =>
              /\ ~IsSome(Credential(q.auth)) =>
                    Done(r) /\ q.status = 401 /\ ~q.ran /\ ~q.fs
              /\ IsSome(Credential(q.auth)) /\ Get(Credential(q.auth)) # TOKEN_A =>
                    Done(r) /\ q.status = 403 /\ ~q.ran /\ ~q.fs
              /\ q.ran => Credential(q.auth) = Some(TOKEN_A)

\* a push with a wrong token is answered 403 while the slot holds an entry
C2_Witness ==
    \E r \in Reqs :
        /\ Done(r) /\ reqs[r].status = 403 /\ reqs[r].kind = "push"
        /\ reqs[r].volt_id = UUID_1 /\ IsSome(hashf[UUID_1])

\* C3: push, pull and check answer 400 to a slot id that is no UUID, without
\* any file system access; no file of such an id ever exists.
C3_InvalidIdRejected ==
    /\ \A r \in Reqs :
          LET q == reqs[r]
          IN  q.ran /\ q.kind \in {"push", "pull", "check"} /\ q.volt_id \notin WellFormedIds
                 => Done(r) /\ q.status = 400 /\ ~q.fs
    /\ \A id \in VoltIds \ WellFormedIds : ~IsSome(zst[id]) /\ ~IsSome(hashf[id])
    /\ (\E id \in VoltIds : IsSome(zst[id]) \/ IsSome(hashf[id])) => cache_dir

\* a push to an id of the right length with a non-hex digit is answered 400
\* before the storage root exists
C3_Witness ==
    \E r \in Reqs :
        /\ Done(r) /\ reqs[r].kind = "push" /\ reqs[r].volt_id = BAD_ID_2
        /\ reqs[r].ran /\ reqs[r].status = 400 /\ ~cache_dir

\* the request's fingerprint equals the trimmed text of the fingerprint file
Agree(xhash, file) ==
    IsSome(Carried(xhash)) /\ IsSome(file) /\ Get(Carried(xhash)) = trim(Get(file))

\* a pull, check or push that has answered, for a well-formed id, with no
\* file system call of its own failing
Answered(r, kind) ==
    /\ Done(r) /\ reqs[r].kind = kind /\ reqs[r].ran
    /\ reqs[r].volt_id \in WellFormedIds

\* C4: a pull answers 304 without opening the archive when the fingerprint file
\* exists and its trimmed text equals the request's fingerprint; otherwise 200
\* with Content-Encoding zstd and the archive bytes when the archive exists;
\* otherwise 404.
C4_PullDecision ==
    \A r \in Reqs :
        Answered(r, "pull") /\ ~reqs[r].ioerr =>
            LET q == reqs[r]
                id == q.volt_id
            IN  IF Agree(q.xhash, hashf[id])
                THEN q.status = 304 /\ ~q.opened /\ ~q.enc /\ q.rbody = <<>>
                ELSE IF IsSome(zst[id])
                THEN q.status = 200 /\ q.opened /\ q.enc /\ q.rbody = Get(zst[id])
                ELSE q.status = 404 /\ q.opened /\ q.rbody = <<>>

\* a pull is answered 304 on a fingerprint file whose text needs the trim
C4_Witness ==
    \E r \in Reqs :
        /\ Answered(r, "pull") /\ reqs[r].status = 304
        /\ hashf[reqs[r].volt_id] = Some(HASH_A_PADDED)
        /\ Carried(reqs[r].xhash) = Some(HASH_A)

\* the status pull answers on this request and these files, no call failing
PullVerdict(xhash, hash_file, zst_file) ==
    IF pull_not_modified(header_str(xhash), hash_file) THEN 304
    ELSE pull_open_status(zst_file, TRUE)

\* C8 as claimed: whatever the request and the files, check answers what pull
\* would answer, without reading the archive.
C8_CheckEqualsPull ==
    \A r \in Reqs :
        Answered(r, "check") /\ ~reqs[r].ioerr =>
            /\ reqs[r].status = PullVerdict(reqs[r].xhash, hashf[reqs[r].volt_id],
                                            zst[reqs[r].volt_id])
            /\ ~reqs[r].opened /\ reqs[r].rbody = <<>>

\* C8 as amended: check answers what pull would answer when the request carries
\* a fingerprint and both files exist, and when neither file exists; with a
\* fingerprint file and no request fingerprint it answers 400, with no
\* fingerprint file 404 whether or not the archive exists; it never reads the
\* archive.
C8_CheckEqualsPullWhenPaired ==
    \A r \in Reqs :
        Answered(r, "check") /\ ~reqs[r].ioerr =>
            LET q == reqs[r]
                h == hashf[q.volt_id]
                z == zst[q.volt_id]
            IN  /\ ~q.opened /\ ~q.enc /\ q.rbody = <<>>
                /\ (IsSome(Carried(q.xhash)) /\ IsSome(h) /\ IsSome(z))
                   \/ (~IsSome(h) /\ ~IsSome(z))
                      => q.status = PullVerdict(q.xhash, h, z)
                /\ ~IsSome(Carried(q.xhash)) /\ IsSome(h) => q.status = 400
                /\ ~IsSome(h) => q.status = 404

\* a check is answered 304 on a fingerprint file whose text needs the trim,
\* as a pull would be
C8_Witness ==
    \E r \in Reqs :
        /\ Answered(r, "check") /\ reqs[r].status = 304
        /\ hashf[reqs[r].volt_id] = Some(HASH_A_PADDED) /\ IsSome(zst[reqs[r].volt_id])
        /\ PullVerdict(reqs[r].xhash, hashf[reqs[r].volt_id], zst[reqs[r].volt_id]) = 304

\* C9 as claimed: a pull for a well-formed id without X-Volt-Hash is answered 400.
C9_PullWithoutHashIs400 ==
    \A r \in Reqs :
        Answered(r, "pull") /\ reqs[r].xhash = None => reqs[r].status = 400

\* C9 as amended: a pull for a well-formed id without X-Volt-Hash is never
\* answered 400 or 304: it is answered 200 with the archive when the archive
\* exists and 404 when it does not.
C9_PullWithoutHashServes ==
    \A r \in Reqs :
        Answered(r, "pull") /\ reqs[r].xhash = None /\ ~reqs[r].ioerr =>
            LET q == reqs[r]
            IN  IF IsSome(zst[q.volt_id])
                THEN q.status = 200 /\ q.rbody = Get(zst[q.volt_id])
                ELSE q.status = 404

\* a pull without X-Volt-Hash is answered 200 although a fingerprint is stored
C9_Witness ==
    \E r \in Reqs :
        /\ Answered(r, "pull") /\ reqs[r].xhash = None /\ reqs[r].status = 200
        /\ IsSome(hashf[reqs[r].volt_id]) /\ reqs[r].rbody # <<>>

\* C7 as claimed: a push answered 400 (stream error) or 500 (failed file system
\* call) leaves the slot's archive and fingerprint as they were when it started.
C7_FailedPushNoEffect ==
    \A r \in Reqs :
        Answered(r, "push") /\ reqs[r].status \in {400, 500} =>
            /\ zst[reqs[r].volt_id] = reqs[r].pre_zst
            /\ hashf[reqs[r].volt_id] = reqs[r].pre_hash

\* C1 as claimed: when pushes to a slot have run concurrently and all of them
\* have succeeded, a pull that then reads the slot finds a fingerprint file and
\* an archive written by one and the same push.
C1_PullSeesOnePush ==
    \A r \in Reqs :
        LET id == reqs[r].volt_id
        IN  /\ reqs[r].kind = "pull" /\ reqs[r].pc = "handler"
            /\ id \in WellFormedIds
            /\ Writing(id) = {} /\ ~failed[id] /\ IsSome(hashf[id])
            => same_push[id]

\* the fingerprint a push stores: the text of its X-Volt-Hash header, or the
\* empty text when it has none
Stored(xhash) == IF IsSome(Carried(xhash)) THEN Get(Carried(xhash)) ELSE <<>>

\* C5: when a push that overlapped no other push to its slot answers 200, the
\* slot's archive is exactly the body it sent and the slot's fingerprint file
\* is exactly the fingerprint it sent, whatever the slot held before.
C5_PushReplaces ==
    \A r \in Reqs :
        Answered(r, "push") /\ reqs[r].status = 200 /\ ~reqs[r].overlap =>
            /\ zst[reqs[r].volt_id] = Some(reqs[r].recv)
            /\ hashf[reqs[r].volt_id] = Some(Stored(reqs[r].xhash))

\* a push of a one-chunk body succeeds on a slot that an earlier, failed push
\* had left behind
C5_Witness ==
    \E r \in Reqs :
        /\ Answered(r, "push") /\ reqs[r].status = 200 /\ ~reqs[r].overlap
        /\ Len(reqs[r].recv) = 1 /\ failed[reqs[r].volt_id]
        /\ zst[reqs[r].volt_id] = Some(reqs[r].recv)
        /\ hashf[reqs[r].volt_id] = Some(HASH_B)

\* C6: when the client's push has succeeded and since it computed its
\* fingerprint no fingerprinted directory has changed and no other push to the
\* slot has taken a step, the store answers every pull of the client with 304,
\* as long as its read of the fingerprint file does not fail; the client that
\* receives the answer reports the cache up to date.
C6_PushThenPullNotModified ==
    reqs[1].pc = "done" /\ reqs[1].kind = "pull" /\ fresh = "yes" /\ ~reqs[1].ioerr =>
        /\ reqs[1].status = 304
        /\ cli.outcome \in {"up_to_date", "connect_error"}
        /\ hashf[config.volt_id]
               = compute_cache(push_hash_dirs(config.settings), local, NoFaults)

\* a client whose fingerprint directory is not its cache directory pulls after
\* its push and is told that its cache is up to date
C6_Witness ==
    /\ reqs[1].pc = "done" /\ reqs[1].kind = "pull" /\ fresh = "yes"
    /\ reqs[1].status = 304 /\ cli.pc = "end" /\ cli.outcome = "up_to_date"
    /\ IsSome(config.settings.hash)
    /\ IsSome(local["src"]) /\ IsSome(local["target"])
    /\ local["src"] # local["target"]

\* C10: while a pull runs and after it has returned, the local directories
\* differ from what they were when it started only if a response with a
\* success status other than 304 and its body were received; a pull that ends
\* on 304, on a non-success status or on a transport failure leaves every
\* directory as it was.
C10_PullFrame ==
    cli.cmd = "pull" =>
        /\ local # cli.pre_local =>
               /\ cli.status >= 200 /\ cli.status < 300
               /\ cli.got
        /\ cli.outcome \in {"up_to_date", "status_error", "connect_error",
                            "config_error", "body_error"} =>
               local = cli.pre_local

\* a pull that the store answers 404 returns with the directory it found
C10_Witness ==
    /\ cli.cmd = "pull" /\ cli.pc = "end" /\ cli.status = 404
    /\ cli.outcome = "status_error"
    /\ IsSome(local["target"]) /\ Get(local["target"]) # EmptyTree
    /\ local = cli.pre_local

\* the configured cache directories
CacheDirs == {config.settings.cache[j] : j \in 1..Len(config.settings.cache)}

\* C11 as claimed: a pull that fails in decompression or in extraction leaves
\* every configured cache directory absent or empty.
C11_CodecFailureLeavesEmpty ==
    cli.cmd = "pull" /\ cli.outcome \in {"decode_error", "unpack_error"} =>
        \A d \in CacheDirs : local[d] \in {None, Some(EmptyTree)}

\* the directories after the entries given have been extracted over fs
RECURSIVE Unpacked(_, _)
Unpacked(entries, fs) ==
    IF entries = <<>> THEN fs
    ELSE Unpacked(Tail(entries), unpack_entry(fs, Head(entries)))

\* C12: after a pull that received an archive and extracted it, every
\* configured cache directory holds exactly the files the archive holds for it
\* and none of the files it held before; and the archive a push sends holds,
\* for every configured cache directory, exactly the files the directory has.
C12_PullRestoresExactly ==
    /\ cli.cmd = "pull" /\ cli.outcome = "restored" =>
           \A d \in CacheDirs :
               local[d] = Unpacked(archive_entries(cli.decoded), NoLocal)[d]
    /\ cli.cmd = "push" /\ cli.pc \in {"send", "wait"} =>
           /\ IsSome(decode_all(cli.req.body))
           /\ \A d \in CacheDirs :
                  Unpacked(archive_entries(Get(decode_all(cli.req.body))), NoLocal)[d]
                      = cli.pre_local[d]

\* a pull restores a one-file directory over a directory that held two other
\* files
C12_Witness ==
    /\ cli.cmd = "pull" /\ cli.outcome = "restored"
    /\ cli.pre_local["target"] = Some(("f" :> 2) @@ ("g" :> 1))
    /\ local["target"] = Some("f" :> 1)

\* C13: in the run flow the run never ends without the wrapped command having
\* been started, whatever pull_cache returned; the command is not started while
\* the pull is in progress; push_cache is called only after the command has
\* exited with success; and a run whose command succeeded reports success
\* whatever push_cache returned.
C13_BuildAlwaysRuns ==
    /\ run.pc = "end" => run.status # ""
    /\ run.pc = "pull" => run.status = ""
    /\ run.pc \in {"built", "push"} => run.status = "success"
    /\ cli.cmd = "push" => run.status = "success"
    /\ run.pc = "end" /\ run.status = "success" => run.exit = "SUCCESS"

\* a run whose pull failed and whose push failed has run the command and
\* reports success
C13_Witness ==
    /\ run.pc = "end" /\ run.pull_err /\ run.status = "success"
    /\ cli.cmd = "push" /\ IsErr(cli.outcome)
    /\ run.exit = "SUCCESS"

\* the profile named in the settings is among the loaded profiles
ProfileLoaded == \E s \in config.servers : s.name = config.settings.server

\* C14: with a server profile name that is not loaded, pull and push return a
\* configuration error: no request is built or reaches the store and no local
\* directory changes, whether or not the cache directories exist.
C14_ConfigErrorFirst ==
    ~ProfileLoaded =>
        /\ reqs[1].pc = "idle"
        /\ cli.req = NoReq
        /\ cli.cmd \in {"pull", "push"} =>
               /\ cli.pc = "end" /\ cli.outcome = "config_error"
               /\ cli.status = 0 /\ local = cli.pre_local

\* a push of an existing cache directory ends in the configuration error
C14_Witness ==
    /\ ~ProfileLoaded
    /\ cli.cmd = "push" /\ cli.pc = "end" /\ cli.outcome = "config_error"
    /\ IsSome(local["target"])

\* C15 as claimed: a pull that the store answers 404 reports the outcome
\* "cache miss", which is not the outcome of another non-success status.
C15_NotFoundIsCacheMiss ==
    cli.cmd = "pull" /\ cli.pc = "end" /\ cli.status = 404 =>
        cli.outcome = "cache_miss"

\* ------------------------------------------------------------ fingerprints
\* C16: the fingerprint of a directory list and the fingerprint of the same
\* directories listed in another order are equal, on each of the paths: the
\* combine of the exact hashes and the sampling hash over the union (a list of
\* one directory has no other order).
C16_PermutationInvariant == fp.pc = "permuted" => fp.out = fp.prev

\* the directories of a sampling hash that is not zero, listed the other way
C16_Witness ==
    /\ fp.pc = "permuted"
    /\ fp.dirs = <<"target", "src">>
    /\ total_files(fp.dirs, local) > MERKLE_TREE_THRESHOLD
    /\ IsOk(fp.out) /\ Get(fp.out) # <<"0">>

\* C17: the fingerprint of the empty directory list and the fingerprint of a
\* list of one directory that does not exist are both the text of 64 zeros:
\* no error, and not the sampling hash of no files.
C17_Sentinel ==
    fp.pc = "hashed" /\ (fp.dirs = <<>> \/ (Len(fp.dirs) = 1 /\ local[fp.dirs[1]] = None))
        => fp.out = Ok(Rep("0", 64))

\* one directory that does not exist, on a file system whose tree build fails
C17_Witness ==
    /\ fp.pc = "hashed"
    /\ fp.dirs = <<"target">> /\ local["target"] = None
    /\ "target" \in fp.io.build_err

\* C18: the fingerprint is never an error, whatever the directory list and
\* whatever the file system refuses: a directory that is missing, metadata that
\* cannot be read, a file that cannot be opened, a tree build that fails.
C18_NeverFails == fp.pc \in {"hashed", "permuted", "again", "touched"} => IsOk(fp.out)

\* two directories, the tree build of one fails and no file of it can be read
C18_Witness ==
    /\ fp.pc = "hashed"
    /\ fp.dirs = <<"src", "target">>
    /\ "target" \in fp.io.build_err /\ fp.io.open_err = {"f", "g"}
    /\ IsSome(local["target"]) /\ DOMAIN Get(local["target"]) = {"f", "g"}
    /\ local["src"] = None

\* C19: the fingerprint taken again of an unchanged file system is the same,
\* and on the exact-hash path (one directory, or several with at most 1000
\* files in total) the fingerprint taken after the content of one file changed
\* is another one.
C19_StableAndSensitive ==
    /\ fp.pc = "again" => fp.out = fp.prev
    /\ fp.pc = "touched" /\ exact_path(fp.dirs, local) => fp.out # fp.prev

\* ------------------------------------------------------------ read-only
\* C20: a step of a pull, a check or a health request leaves the archive and
\* the fingerprint of every slot as they are, whatever the request and
\* whatever it answers.
C20_ReadOnly ==
    [][\A r \in Reqs :
          reqs'[r] # Live[r] /\ reqs'[r].kind \in {"pull", "check", "health"}
              => zst' = zst /\ hashf' = hashf]_vars

\* a pull has sent the whole archive while another pull of the slot is being
\* handled
C20_Witness ==
    /\ reqs[1].pc = "done" /\ reqs[1].kind = "pull" /\ reqs[1].status = 200
    /\ reqs[1].rbody # <<>> /\ reqs[1].rbody = Get(zst[reqs[1].volt_id])
    /\ reqs[2].kind = "pull" /\ reqs[2].pc \in {"open", "body"}

\* ------------------------------------------------- more on fingerprints
\* C21: the sampling hash does not depend on the order in which the digests
\* of the files reach the fold: delivered in another order, the digests of the
\* same files fold to the same fingerprint.
C21_ScheduleIndependent == fp.pc = "scheduled" => fp.out = fp.prev

\* the digests of more than 1000 files, folded in another order to a value
\* that is not zero
C21_Witness ==
    /\ fp.pc = "scheduled"
    /\ total_files(fp.dirs, local) > MERKLE_TREE_THRESHOLD
    /\ Get(fp.out) # <<"0">>

\* C22: the fingerprint of one directory is its exact hash whatever the number
\* of its files; the fingerprint of two or more directories is the combine of
\* their exact hashes (64 characters) when they hold 1000 regular files or
\* fewer in total, and one sampling hash over all their files (at most 16
\* characters) when they hold 1001 or more.
C22_PathSelection ==
    fp.pc = "hashed" =>
        /\ Len(fp.dirs) = 1 /\ IsSome(local[fp.dirs[1]]) /\ fp.dirs[1] \notin fp.io.build_err
               => fp.out = Ok(bytes_to_hex(MerkleTree_root(Get(local[fp.dirs[1]]))))
        /\ Len(fp.dirs) >= 2 /\ total_files(fp.dirs, local) <= 1000
               => /\ fp.out = compute_cache_merkle_multi(fp.dirs, local, fp.io)
                  /\ Len(Get(fp.out)) = 64
        /\ Len(fp.dirs) >= 2 /\ total_files(fp.dirs, local) >= 1001
               => /\ fp.out = compute_cache_sampling(fp.dirs, local, fp.io)
                  /\ Len(Get(fp.out)) <= 16

\* two directories that hold exactly 1000 files: the combine
C22_Witness ==
    /\ fp.pc = "hashed"
    /\ fp.dirs = <<"target", "src">> /\ total_files(fp.dirs, local) = 1000
    /\ Len(Get(fp.out)) = 64

\* The value ((first 16 hex characters as a 64-bit integer) + i) modulo 2^64
\* of a hash, as four 16-bit numbers, the highest first; a hash that does
\* not parse counts as 0.
RoundValue(hash_str, i) ==
    LET s == IF Len(hash_str) > 16 THEN SubSeq(hash_str, 1, 16) ELSE hash_str
        d(j) == IF j <= 16 - Len(s) THEN 0 ELSE HexVal(s[j - (16 - Len(s))])
        v(l) == IF s = <<>> THEN 0
                ELSE 4096 * d(4 * l - 3) + 256 * d(4 * l - 2) + 16 * d(4 * l - 1) + d(4 * l)
        a4 == v(4) + i
        a3 == v(3) + (a4 \div 65536)
        a2 == v(2) + (a3 \div 65536)
        a1 == v(1) + (a2 \div 65536)
    IN  <<a1 % 65536, a2 % 65536, a3 % 65536, a4 % 65536>>

RECURSIVE Xor16(_, _)
Xor16(a, b) ==
    IF a = 0 THEN b ELSE IF b = 0 THEN a
    ELSE ((a + b) % 2) + 2 * Xor16(a \div 2, b \div 2)

\* the XOR over the first n hashes of part l of their values of round i
RECURSIVE RoundXor(_, _, _, _)
RoundXor(H, n, i, l) ==
    IF n = 0 THEN 0 ELSE Xor16(RoundXor(H, n - 1, i, l), RoundValue(H[n], i)[l])

\* the 64 characters of the four rounds over the hashes H
RoundsText(H) ==
    [j \in 1..64 |->
        LET i == (j - 1) \div 16
            l == (((j - 1) % 16) \div 4) + 1
            x == RoundXor(H, Len(H), i, l)
            q == (j - 1) % 4
        IN  HEX[(IF q = 0 THEN x \div 4096
                 ELSE IF q = 1 THEN (x \div 256) % 16
                 ELSE IF q = 2 THEN (x \div 16) % 16
                 ELSE x % 16) + 1]]

\* C23: the combine of the per-directory hashes is the text of 64 lowercase hex
\* characters in 4 rounds of 16, where round i is the XOR over all hashes of
\* ((the first 16 hex characters of the hash as a 64-bit integer) + i) modulo
\* 2^64, a hash that does not parse counting as 0; and the fingerprint of two
\* or more directories of at most 1000 files is the combine of their hashes.
C23_CombineRounds ==
    /\ fp.pc = "combined" => fp.out = Ok(RoundsText(fp.hashes))
    /\ fp.pc = "hashed" /\ Len(fp.dirs) >= 2 /\ total_files(fp.dirs, local) <= 1000
           => fp.out = Ok(RoundsText([j \in 1..Len(fp.dirs) |->
                                        Get(compute_cache_merkle(fp.dirs[j], local, fp.io))]))

\* the largest root and a hash that does not parse: the sum wraps around in
\* the rounds 1 to 3
C23_Witness ==
    /\ fp.pc = "combined"
    /\ fp.hashes = <<Rep("f", 64), <<>> >>
    /\ fp.out = Ok(Rep("f", 16) \o Rep("0", 15) \o <<"1">> \o Rep("0", 15) \o <<"3">>
                      \o Rep("0", 15) \o <<"1">>)

\* ------------------------------------------------------ more on the store
\* C24: in every state of the store, whatever pushes (ended well, failed or in
\* progress), pulls and checks have run and in whatever interleaving, a slot
\* whose fingerprint file exists has an archive file.
C24_HashImpliesArchive ==
    \A id \in VoltIds : IsSome(hashf[id]) => IsSome(zst[id])

\* a slot with both files after a push to it failed, while another push is
\* writing its archive
C24_Witness ==
    /\ IsSome(hashf[UUID_1]) /\ IsSome(zst[UUID_1]) /\ failed[UUID_1]
    /\ \E r \in Reqs : reqs[r].kind = "push" /\ reqs[r].pc = "stream"

\* C25: a step of a push to a slot leaves the archive and the fingerprint of
\* every other slot as they are, and what a pull or a check of another slot
\* answers is decided by the files of that slot alone, whether a push to the
\* first slot has not started, is in progress or has ended.
C25_PushTouchesOneSlot ==
    /\ [][\A r \in Reqs :
             reqs'[r] # Live[r] /\ reqs'[r].kind = "push" =>
                 \A B \in VoltIds \ {reqs'[r].volt_id} :
                     zst'[B] = zst[B] /\ hashf'[B] = hashf[B]]_vars
    /\ [](Answered(2, "pull") /\ ~reqs[2].ioerr =>
             IF Agree(reqs[2].xhash, hashf[UUID_2]) THEN reqs[2].status = 304
             ELSE IF IsSome(zst[UUID_2])
             THEN reqs[2].status = 200 /\ reqs[2].rbody = Get(zst[UUID_2])
             ELSE reqs[2].status = 404)
    /\ [](Answered(2, "check") /\ ~reqs[2].ioerr =>
             reqs[2].status = IF ~IsSome(hashf[UUID_2]) THEN 404
                              ELSE IF ~IsSome(Carried(reqs[2].xhash)) THEN 400
                              ELSE IF Agree(reqs[2].xhash, hashf[UUID_2]) THEN 304
                              ELSE 200)

\* a pull of the second slot has sent its archive while a push to the first
\* slot is writing
C25_Witness ==
    /\ Answered(2, "pull") /\ reqs[2].status = 200 /\ reqs[2].rbody # <<>>
    /\ reqs[1].kind = "push" /\ reqs[1].pc = "stream" /\ reqs[1].recv # <<>>
    /\ IsSome(zst[UUID_1]) /\ zst[UUID_1] # zst[UUID_2]

\* C26: a pull whose body does not decompress returns with every local
\* directory holding exactly what it held when the pull started: the body is
\* decompressed in full before the first cache directory is removed, so the
\* failure is met with nothing removed and nothing extracted.
C26_DecodeBeforeRemove ==
    cli.cmd = "pull" /\ cli.outcome = "decode_error" =>
        /\ cli.got /\ is_success(cli.status)
        /\ \A d \in DirNames : local[d] = cli.pre_local[d]

\* a pull received an archive that does not decompress while a configured
\* cache directory exists with files in it
C26_Witness ==
    /\ cli.cmd = "pull" /\ cli.pc = "end" /\ cli.outcome = "decode_error"
    /\ \E d \in CacheDirs : IsSome(local[d]) /\ Get(local[d]) # EmptyTree

\* C27: a run pushes only after the wrapped command succeeded.  When the
\* command ends with a failure status the run returns at once and reports
\* failure: the last command of the client is the pull, no push is started and
\* no request of this client reaches the store, whose files change only by
\* the requests of other clients.
C27_PushOnlyAfterSuccess ==
    /\ [](run.status = "failure" =>
             /\ run.pc = "end" /\ run.exit = "FAILURE"
             /\ cli.cmd = "pull" /\ cli.pc = "end")
    /\ [](run.pc # "off" /\ (cli.cmd = "push" \/ run.pc \in {"built", "push"}) =>
             run.status = "success")
    /\ [][run'.status = "failure" /\ run.status # "failure" =>
             store' = store /\ cli' = cli /\ reqs' = Live]_vars
    /\ [][run.status = "failure" =>
             /\ reqs'[1] = Live[1]
             /\ cli'.cmd # "push"
             /\ store' # store => reqs'[2] # Live[2]]_vars

\* a run restored the cache, the command failed and the run has returned;
\* the directories a push would send exist
C27_Witness ==
    /\ run.pc = "end" /\ run.status = "failure" /\ run.exit = "FAILURE"
    /\ cli.cmd = "pull" /\ cli.outcome = "restored"
    /\ IsSome(local["target"]) /\ Get(local["target"]) # EmptyTree
    /\ IsSome(hashf[UUID_1])

\* C28: in the combine equal hashes cancel in pairs.  A list of hashes that
\* ends in two equal hashes gives the fingerprint of the list without the two
\* (every round's value is unchanged), and two directories with the same
\* content, or two missing directories, or one directory listed twice, have
\* the fingerprint of 64 zeros whatever they hold.
C28_PairsCancel ==
    /\ fp.pc = "combined" /\ Len(fp.hashes) >= 2
           /\ fp.hashes[Len(fp.hashes)] = fp.hashes[Len(fp.hashes) - 1]
           => fp.out = Ok(rounds(sort(SubSeq(fp.hashes, 1, Len(fp.hashes) - 2))))
    /\ fp.pc = "hashed" /\ Len(fp.dirs) = 2
           /\ total_files(fp.dirs, local) <= MERKLE_TREE_THRESHOLD
           /\ local[fp.dirs[1]] = local[fp.dirs[2]]
           /\ (fp.dirs[1] = fp.dirs[2] \/ fp.io.build_err = {})
           => fp.out = Ok(DEFAULT_HASH)

\* a pair of equal sampling hashes after the largest root: the fingerprint is
\* the one of the root alone, which is not the sentinel
C28_Witness ==
    /\ fp.pc = "combined"
    /\ fp.hashes = <<Rep("f", 64), <<"3", "e", "8">>, <<"3", "e", "8">> >>
    /\ fp.out = Ok(rounds(<<Rep("f", 64)>>))
    /\ fp.out # Ok(DEFAULT_HASH)

====
